---- MODULE Spec2Model ----
(***************************************************************************)
(* Model of the Ansible modules of this repository.                        *)
(*                                                                         *)
(* iosxr_sshkeys.main(): read the keys installed on the device, parse them *)
(* with a TextFSM template, convert the wanted OpenSSH keys with           *)
(* ssh2cisco(), compare, and (outside check mode) stage and import the     *)
(* keys of the wanted users and zeroize the keys of the other users.       *)
(*                                                                         *)
(* Text is a sequence of lines, a line is a sequence of tokens: single     *)
(* characters for the hexadecimal data and the spaces, whole literals for  *)
(* the fixed parts of a line ("Key label: ", "Data     :") and for user    *)
(* names.  Bytes are numbers in 0..255.  A Python dict is a sequence of    *)
(* <<key, value>> pairs in insertion order.                                *)
(***************************************************************************)
EXTENDS Integers, Sequences, FiniteSets, TLC

\* ---- bounds -------------------------------------------------------------
NumUsers == 2
NumKeys == 2
MaxBlocks == 2
MaxDataLines == 2
NumTables == 2
MaxStatements == 2

\* ---- inputs -------------------------------------------------------------
UserNames == <<"alice", "bob", "carol", "dave">>
Users == {UserNames[n] : n \in 1..NumUsers}

\* An OpenSSH public key is identified by a number; BadKey is a key that
\* ssh-keygen refuses to convert.
BadKey == 0
SshKeys == 0..NumKeys

\* module.params['keys']: every ordered mapping of distinct users to keys
KeysParams ==
  UNION {{s \in [1..n -> Users \X SshKeys] :
            \A a, b \in 1..n : a # b => s[a][1] # s[b][1]} : n \in 0..NumUsers}

\* ---- generic helpers ----------------------------------------------------
RECURSIVE Flatten(_)
Flatten(ss) == IF ss = <<>> THEN <<>> ELSE Head(ss) \o Flatten(Tail(ss))

Range(s) == {s[n] : n \in 1..Len(s)}

\* dict helpers (a dict is a sequence of <<key, value>>)
Has(d, k) == \E n \in 1..Len(d) : d[n][1] = k
Get(d, k) == d[CHOOSE n \in 1..Len(d) : d[n][1] = k][2]
DictSet(d, k, v) ==
  IF Has(d, k) THEN [n \in 1..Len(d) |-> IF d[n][1] = k THEN <<k, v>> ELSE d[n]]
  ELSE Append(d, <<k, v>>)
\* dict == dict compares contents, not insertion order
DictEq(a, b) == Range(a) = Range(b)

\* ---- key conversion -----------------------------------------------------
\* DER/PKCS8 bytes of a key, as "ssh-keygen -e -mPKCS8" followed by the
\* base64 decoding of the body lines yields them
PKCS8(sshkey) == <<48, 160 + sshkey, 1>>

\* the bytes of the second field of the OpenSSH line, base64-decoded
PayloadBytes(sshkey) == <<7, sshkey>>

LowerHexDigits ==
  <<"0", "1", "2", "3", "4", "5", "6", "7", "8", "9", "a", "b", "c", "d", "e", "f">>
UpperHexDigits ==
  <<"0", "1", "2", "3", "4", "5", "6", "7", "8", "9", "A", "B", "C", "D", "E", "F">>

\* binascii.hexlify: two lowercase digits per byte
hexlify(bytes) ==
  [n \in 1..(2 * Len(bytes)) |->
     IF n % 2 = 1 THEN LowerHexDigits[(bytes[(n + 1) \div 2] \div 16) + 1]
     ELSE LowerHexDigits[(bytes[n \div 2] % 16) + 1]]

\* str.upper on one character
UpperChar(c) ==
  CASE c = "a" -> "A" [] c = "b" -> "B" [] c = "c" -> "C"
    [] c = "d" -> "D" [] c = "e" -> "E" [] c = "f" -> "F" [] OTHER -> c
upper(s) == [n \in 1..Len(s) |-> UpperChar(s[n])]

\* proc.returncode != 0
ssh2ciscoRaisesNever(sshkey) == FALSE
ssh2ciscoRaises(sshkey) == sshkey = BadKey

ssh2cisco(sshkey) == upper(hexlify(PKCS8(sshkey)))

\* ---- the device ---------------------------------------------------------
NoKey == <<>>
DstPath(user) == "/harddisk:/publickey_" \o user \o ".raw"
Paths == {DstPath(u) : u \in Users}

\* what the device stores when it imports a staged file
DeviceKeyOf(bytes) ==
  IF \E k \in 1..NumKeys : PayloadBytes(k) = bytes
  THEN PKCS8(CHOOSE k \in 1..NumKeys : PayloadBytes(k) = bytes)
  ELSE NoKey

DeviceHex(b) == <<UpperHexDigits[(b \div 16) + 1], UpperHexDigits[(b % 16) + 1]>>

\* the hexadecimal dump of a key: groups separated by spaces, several lines
RECURSIVE HexLines(_)
HexLines(bytes) ==
  IF Len(bytes) = 0 THEN <<>>
  ELSE IF Len(bytes) = 1 THEN << <<" ">> \o DeviceHex(bytes[1]) >>
  ELSE << <<" ">> \o DeviceHex(bytes[1]) \o <<" ">> \o DeviceHex(bytes[2]) >>
       \o HexLines(SubSeq(bytes, 3, Len(bytes)))

\* one block of "show crypto key authentication rsa all".  shape "ok" is
\* the regular block; "nohex" has the Data header but no data lines;
\* "nodata" stops after the Type line.
KeyBlock(user, bytes, shape) ==
  << <<"Key label: ", user>>, <<"Type     : RSA public key authentication">> >>
  \o (IF shape = "nodata" THEN <<>> ELSE << <<"Data     :", " ">> >>)
  \o (IF shape = "ok" THEN HexLines(bytes) ELSE <<>>)
  \o << <<" ">> >>

RECURSIVE ShowFrom(_, _, _)
ShowFrom(n, dev, shapes) ==
  IF n > NumUsers THEN <<>>
  ELSE (IF dev[UserNames[n]] = NoKey THEN <<>>
        ELSE KeyBlock(UserNames[n], dev[UserNames[n]], shapes[UserNames[n]]))
       \o ShowFrom(n + 1, dev, shapes)
ShowCryptoKey(dev, shapes) == ShowFrom(1, dev, shapes)

\* the shapes a read can produce: at most one block is damaged
OutputShapes(dev) ==
  {[u \in Users |-> "ok"]}
  \cup {[u \in Users |-> IF u = v THEN sh ELSE "ok"] :
          v \in {w \in Users : dev[w] # NoKey}, sh \in {"nohex", "nodata"}}

\* ---- parsing ------------------------------------------------------------
\* out[0].replace(' \n', '\n'): one space before a newline is dropped
StripTrailing(line) ==
  IF Len(line) > 0 /\ line[Len(line)] = " " THEN SubSeq(line, 1, Len(line) - 1)
  ELSE line
ReplaceSpaceNewline(lines) == [n \in 1..Len(lines) |-> StripTrailing(lines[n])]

DataChars == Range(UpperHexDigits) \cup {" "}
WordTokens == Range(UserNames)

\* ^Key label: ${Label}   with Label (\w+)
MatchLabel(line) == Len(line) >= 2 /\ line[1] = "Key label: " /\ line[2] \in WordTokens
\* ^Data\s+:
MatchDataHeader(line) == Len(line) >= 1 /\ line[1] = "Data     :"
\* ^ ${Data}              with Data ([A-F0-9 ]+)
MatchData(line) == Len(line) >= 2 /\ line[1] = " " /\ line[2] \in DataChars
RECURSIVE LongestData(_)
LongestData(s) ==
  IF s = <<>> \/ Head(s) \notin DataChars THEN <<>>
  ELSE <<Head(s)>> \o LongestData(Tail(s))
DataCapture(line) == LongestData(Tail(line))

FsmInit == [state |-> "Start", Label |-> "", Data |-> <<>>, result |-> <<>>]

\* TextFSM._AppendRecord: a record with an empty Required value is skipped
AppendRecord(st) ==
  IF st.Label = "" \/ st.Data = <<>>
  THEN [st EXCEPT !.Label = "", !.Data = <<>>]
  ELSE [st EXCEPT !.result = Append(@, <<st.Label, st.Data>>),
                  !.Label = "", !.Data = <<>>]

\* TextFSM._CheckLine on the two states of the template
CheckLine(st, line) ==
  IF st.state = "Start"
  THEN IF MatchLabel(line) THEN [st EXCEPT !.Label = line[2]]
       ELSE IF MatchDataHeader(line) THEN [st EXCEPT !.state = "GetData"]
       ELSE st
  ELSE IF MatchData(line) THEN [st EXCEPT !.Data = Append(@, DataCapture(line))]
       ELSE IF line = <<>> THEN [AppendRecord(st) EXCEPT !.state = "Start"]
       ELSE st

RECURSIVE FsmRun(_, _)
FsmRun(st, lines) ==
  IF lines = <<>> THEN st ELSE FsmRun(CheckLine(st, Head(lines)), Tail(lines))

\* TextFSM.ParseText: every line, then the implicit EOF record
ParseText(lines) == AppendRecord(FsmRun(FsmInit, lines)).result

\* "".join(data[1]).replace(' ', '')
JoinData(data) == SelectSeq(Flatten(data), LAMBDA c : c # " ")

RECURSIVE GotFrom(_, _)
GotFrom(d, rows) ==
  IF rows = <<>> THEN d
  ELSE GotFrom(DictSet(d, Head(rows)[1], JoinData(Head(rows)[2])), Tail(rows))
ParseKeys(text) == GotFrom(<<>>, ParseText(ReplaceSpaceNewline(text)))

\* ---- wanted, diff -------------------------------------------------------
\* {k: ssh2cisco(v) for k, v in module.params['keys'].items()}
WantedOf(params) == [n \in 1..Len(params) |-> <<params[n][1], ssh2cisco(params[n][2])>>]
WantedRaises(params) == \E n \in 1..Len(params) : ssh2ciscoRaises(params[n][2])

\* yaml.safe_dump of a mapping: the entries sorted by key
RECURSIVE SortedFrom(_, _)
SortedFrom(n, d) ==
  IF n > Len(UserNames) THEN <<>>
  ELSE (IF Has(d, UserNames[n]) THEN << <<UserNames[n], Get(d, UserNames[n])>> >>
        ELSE <<>>) \o SortedFrom(n + 1, d)
safe_dump(d) == SortedFrom(1, d)

ResultOfNoDiff(g, w) == [changed |-> ~DictEq(g, w)]
ResultOf(g, w) ==
  IF ~DictEq(g, w)
  THEN [changed |-> TRUE, diff |-> [before |-> safe_dump(g), after |-> safe_dump(w)]]
  ELSE [changed |-> FALSE]

\* module.check_mode or not result['changed']
ExitsEarlyIgnoringCheckMode(cm, res) == ~res.changed
ExitsEarly(cm, res) == cm \/ ~res.changed

\* user not in got or wanted[user] != got[user]
NeedsCopy(g, w, user) == IF Has(g, user) THEN Get(w, user) # Get(g, user) ELSE TRUE

\* user not in wanted
NeedsZeroizeAll(g, w, user) == TRUE
NeedsZeroize(g, w, user) == ~Has(w, user)

\* conn.send_command(command, prompt="yes/no", answer="yes"): the answer
\* given to the prompt within the call
NoAnswer(command) == ""
SendCommandAnswer(command) == "yes"
\* the session after the exchange: the prompt stays open until answered
SessionAfter(answer) == IF answer = "" THEN "prompt" ELSE "idle"

\* first position at or after n of a user of got that is to be zeroized
RECURSIVE NextRemove(_, _, _)
NextRemove(n, g, w) ==
  IF n > Len(g) THEN n
  ELSE IF NeedsZeroize(g, w, g[n][1]) THEN n
  ELSE NextRemove(n + 1, g, w)

\* ---- state --------------------------------------------------------------
VARIABLES
  keys,        \* module.params['keys']
  check_mode,  \* module.check_mode
  device,      \* the keys installed on the device, by user
  files,       \* the files of the device's harddisk, by path
  pc,          \* position of main(): start, check, import, remove, done,
               \* failed (a remote operation failed), crashed (exception)
  out,         \* output of the show command
  got,         \* dict parsed from out
  wanted,      \* dict of the converted wanted keys
  result,      \* the result dict
  reported,    \* what exit_json handed over: <<>> or <<result>>
  dst,         \* the local variable dst ("" while unbound)
  wantedPos,   \* position of "for user in wanted"
  staged,      \* the copy_file of the current user is done
  gotPos,      \* position of "for user in got"
  ops,         \* the remote operations of this run, in order
  error,       \* the exception that ended the run
  device0,     \* the device at the start of the run
  prev,        \* summary of the previous run
  session,     \* the command session: idle, or prompt while a yes/no
               \* question of the device is unanswered
  blocks,      \* parser alone: the blocks of the output given to it
  rows,        \* parser alone: the rows ParseText returned
  ppc,         \* parser alone: idle, input, parsed
  sql,         \* mysql_import: module.params['sql'], split at ";\n"
  tables,      \* mysql_import: module.params['tables']
  sql_check_mode, \* mysql_import: module.check_mode
  db,          \* mysql_import: the committed contents of the tables
  txn,         \* mysql_import: the contents as the connection sees them
  mpc,         \* mysql_import: idle, start, exec, decide, commit, done,
               \* failed (fail_json), crashed (exception)
  sql_got,     \* mysql_import: got
  sql_wanted,  \* mysql_import: wanted
  sql_result,  \* mysql_import: result
  sql_reported, \* mysql_import: what exit_json or fail_json handed over
  stmtPos,     \* mysql_import: position of "for statement in statements"
  executed,    \* mysql_import: the statements passed to cursor.execute
  commits      \* mysql_import: number of connection.commit() calls

vars == <<keys, check_mode, device, files, pc, out, got, wanted, result,
          reported, dst, wantedPos, staged, gotPos, ops, error, device0, prev,
          session, blocks, rows, ppc, sql, tables, sql_check_mode, db, txn, mpc,
          sql_got, sql_wanted, sql_result, sql_reported, stmtPos, executed, commits>>

iosxrVars == <<keys, check_mode, device, files, pc, out, got, wanted, result,
               reported, dst, wantedPos, staged, gotPos, ops, error, device0, prev,
               session>>
parseVars == <<blocks, rows, ppc>>
sqlVars == <<sql, tables, sql_check_mode, db, txn, mpc, sql_got, sql_wanted,
             sql_result, sql_reported, stmtPos, executed, commits>>

NoPrev == [pc |-> "none", check_mode |-> FALSE, changed |-> FALSE,
           reported |-> <<>>, got |-> <<>>, okread |-> FALSE]

AllOk == [u \in Users |-> "ok"]
\* the show command of this run printed every block in full
WellFormedRead == out = ShowCryptoKey(device0, AllOk)

DeviceStates == [Users -> {NoKey} \cup {PKCS8(k) : k \in 1..NumKeys}]

Op(name, user, path, ok) == [op |-> name, user |-> user, path |-> path, ok |-> ok]

\* the parser is not run on its own
ParseIdle ==
  /\ blocks = <<>>
  /\ rows = <<>>
  /\ ppc = "idle"

\* ---- mysql_import: inputs and pure parts ---------------------------------
TableNames == <<"t1", "t2", "t3">>
Tables == {TableNames[n] : n \in 1..NumTables}
\* what "SELECT * FROM table" can fetch: the rows of a table, kept abstract
Contents == {"rows0", "rows1"}
\* module.params['tables']: a list of table names
TableLists ==
  {SelectSeq(SubSeq(TableNames, 1, NumTables), LAMBDA t : t \in S) : S \in SUBSET Tables}

\* the pieces of module.params['sql'] between ";\n": blank, a statement that
\* writes a table, a statement that raises pymysql.OperationalError, and a
\* statement that raises another pymysql error (a syntax error)
NoWrite(k) == [kind |-> k, table |-> "", value |-> ""]
SqlChunks ==
  {NoWrite("blank"), NoWrite("OperationalError"), NoWrite("ProgrammingError")}
    \cup {[kind |-> "write", table |-> t, value |-> v] : t \in Tables, v \in Contents}
SqlParams == UNION {[1..n -> SqlChunks] : n \in 0..MaxStatements}
\* [statement.strip() for statement in sql.split(";\n") if statement.strip()]
Statements(text) == SelectSeq(text, LAMBDA c : c.kind # "blank")

\* for table in tables: cursor.execute("SELECT * FROM ..."); d[table] = fetchall()
RECURSIVE ReadTables(_, _, _)
ReadTables(ts, view, acc) ==
  IF ts = <<>> THEN acc
  ELSE ReadTables(Tail(ts), view, DictSet(acc, Head(ts), view[Head(ts)]))

\* yaml.safe_dump of the rows of one table
DumpRows(r) == <<"-", r>>
SqlDiff(g, w, ts) ==
  LET differing == SelectSeq(ts, LAMBDA t : Get(g, t) # Get(w, t))
  IN  [n \in 1..Len(differing) |->
         [before_header |-> differing[n], after_header |-> differing[n],
          before |-> DumpRows(Get(g, differing[n])),
          after |-> DumpRows(Get(w, differing[n]))]]
SqlResultOf(g, w, ts) ==
  IF ~DictEq(g, w) THEN [changed |-> TRUE, diff |-> SqlDiff(g, w, ts)]
  ELSE [changed |-> FALSE]
\* if module.check_mode or not result['changed']
SqlExitsEarlyIgnoringCheckMode(cm, res) == ~res.changed
SqlExitsEarly(cm, res) == cm \/ ~res.changed
\* result['msg'] = "MySQL error for {}: {}".format(statement, message)
ErrorMsg(statement) == <<"MySQL error for", statement>>

\* mysql_import is not run
SqlIdle ==
  /\ sql = <<>>
  /\ tables = <<>>
  /\ sql_check_mode = FALSE
  /\ db = [t \in Tables |-> "rows0"]
  /\ txn = [t \in Tables |-> "rows0"]
  /\ mpc = "idle"
  /\ sql_got = <<>>
  /\ sql_wanted = <<>>
  /\ sql_result = [changed |-> FALSE]
  /\ sql_reported = <<>>
  /\ stmtPos = 1
  /\ executed = <<>>
  /\ commits = 0

Init ==
  /\ keys \in KeysParams
  /\ check_mode \in BOOLEAN
  /\ device \in DeviceStates
  /\ files = [p \in Paths |-> <<>>]
  /\ pc = "start"
  /\ out = <<>>
  /\ got = <<>>
  /\ wanted = <<>>
  /\ result = [changed |-> FALSE]
  /\ reported = <<>>
  /\ dst = ""
  /\ wantedPos = 1
  /\ staged = FALSE
  /\ gotPos = 1
  /\ ops = <<>>
  /\ error = ""
  /\ device0 = device
  /\ prev = NoPrev
  /\ session = "idle"
  /\ ParseIdle
  /\ SqlIdle

\* lines 60-97: run the show command and parse its output
RunCommands ==
  /\ UNCHANGED <<parseVars, sqlVars>>
  /\ pc = "start"
  /\ \E shapes \in OutputShapes(device) :
       /\ out' = ShowCryptoKey(device, shapes)
       /\ got' = ParseKeys(ShowCryptoKey(device, shapes))
  /\ ops' = Append(ops, Op("run_commands", "", "", TRUE))
  /\ pc' = "check"
  /\ UNCHANGED <<keys, check_mode, device, files, wanted, result, reported, dst,
                 wantedPos, staged, gotPos, error, device0, prev, session>>

\* lines 99-111: convert the wanted keys, compare, exit early
CheckWanted ==
  /\ UNCHANGED <<parseVars, sqlVars>>
  /\ pc = "check"
  /\ IF WantedRaises(keys)
     THEN /\ pc' = "crashed"
          /\ error' = "RuntimeError: unable to convert key"
          /\ UNCHANGED <<wanted, result, reported, gotPos>>
     ELSE /\ wanted' = WantedOf(keys)
          /\ result' = ResultOf(got, WantedOf(keys))
          /\ error' = ""
          /\ IF ExitsEarly(check_mode, ResultOf(got, WantedOf(keys)))
             THEN /\ reported' = <<ResultOf(got, WantedOf(keys))>>
                  /\ pc' = "done"
                  /\ UNCHANGED gotPos
             ELSE /\ reported' = <<>>
                  /\ pc' = IF Len(keys) = 0 THEN "remove" ELSE "import"
                  /\ gotPos' = NextRemove(1, got, WantedOf(keys))
  /\ UNCHANGED <<keys, check_mode, device, files, out, got, dst, wantedPos,
                 staged, ops, device0, prev, session>>

CurUser == wanted[wantedPos][1]

\* lines 116-123: stage the key of a changed or missing user
CopyFile ==
  /\ UNCHANGED <<parseVars, sqlVars>>
  /\ pc = "import"
  /\ ~staged
  /\ NeedsCopy(got, wanted, CurUser)
  /\ \E ok \in BOOLEAN :
       /\ ops' = Append(ops, Op("copy_file", CurUser, DstPath(CurUser), ok))
       /\ IF ok
          THEN /\ files' = [files EXCEPT ![DstPath(CurUser)] =
                              PayloadBytes(Get(keys, CurUser))]
               /\ dst' = DstPath(CurUser)
               /\ staged' = TRUE
               /\ UNCHANGED <<pc, error>>
          ELSE /\ pc' = "failed"
               /\ error' = "copy_file"
               /\ UNCHANGED <<files, dst, staged>>
  /\ UNCHANGED <<keys, check_mode, device, out, got, wanted, result, reported,
                 wantedPos, gotPos, device0, prev, session>>

\* the import command with its failure swallowed: the loop goes on
SendImportIgnoringFailure ==
  /\ UNCHANGED <<parseVars, sqlVars>>
  /\ pc = "import"
  /\ staged \/ ~NeedsCopy(got, wanted, CurUser)
  /\ IF dst = ""
     THEN /\ pc' = "crashed"
          /\ error' = "NameError: dst"
          /\ UNCHANGED <<ops, device, wantedPos, staged, session>>
     ELSE \E ok \in BOOLEAN :
          /\ ops' = Append(ops, Op("import", CurUser, dst, ok))
          /\ session' = SessionAfter(SendCommandAnswer("import"))
          /\ device' = IF ok THEN [device EXCEPT ![CurUser] = DeviceKeyOf(files[dst])]
                       ELSE device
          /\ pc' = IF wantedPos = Len(wanted) THEN "remove" ELSE "import"
          /\ wantedPos' = wantedPos + 1
          /\ staged' = FALSE
          /\ UNCHANGED error
  /\ UNCHANGED <<keys, check_mode, files, out, got, wanted, result, reported,
                 dst, gotPos, device0, prev>>

\* lines 124-126: the import command, after the if of the loop body
SendImport ==
  /\ UNCHANGED <<parseVars, sqlVars>>
  /\ pc = "import"
  /\ staged \/ ~NeedsCopy(got, wanted, CurUser)
  /\ IF dst = ""
     THEN /\ pc' = "crashed"
          /\ error' = "NameError: dst"
          /\ UNCHANGED <<ops, device, wantedPos, staged, session>>
     ELSE \E ok \in BOOLEAN :
          /\ ops' = Append(ops, Op("import", CurUser, dst, ok))
          /\ session' = SessionAfter(SendCommandAnswer("import"))
          /\ IF ok
             THEN /\ device' = IF SendCommandAnswer("import") = "yes"
                               THEN [device EXCEPT ![CurUser] = DeviceKeyOf(files[dst])]
                               ELSE device
                  /\ pc' = IF wantedPos = Len(wanted) THEN "remove" ELSE "import"
                  /\ wantedPos' = wantedPos + 1
                  /\ staged' = FALSE
                  /\ UNCHANGED error
             ELSE /\ pc' = "failed"
                  /\ error' = "send_command"
                  /\ UNCHANGED <<device, wantedPos, staged>>
  /\ UNCHANGED <<keys, check_mode, files, out, got, wanted, result, reported,
                 dst, gotPos, device0, prev>>

\* lines 129-133: zeroize the key of a user that is not wanted
SendZeroize ==
  /\ UNCHANGED <<parseVars, sqlVars>>
  /\ pc = "remove"
  /\ gotPos <= Len(got)
  /\ \E ok \in BOOLEAN :
       /\ ops' = Append(ops, Op("zeroize", got[gotPos][1], "", ok))
       /\ session' = SessionAfter(SendCommandAnswer("zeroize"))
       /\ IF ok
          THEN /\ device' = IF SendCommandAnswer("zeroize") = "yes"
                            THEN [device EXCEPT ![got[gotPos][1]] = NoKey]
                            ELSE device
               /\ gotPos' = NextRemove(gotPos + 1, got, wanted)
               /\ UNCHANGED <<pc, error>>
          ELSE /\ pc' = "failed"
               /\ error' = "send_command"
               /\ UNCHANGED <<device, gotPos>>
  /\ UNCHANGED <<keys, check_mode, files, out, got, wanted, result, reported,
                 dst, wantedPos, staged, device0, prev>>

\* line 135: module.exit_json(**result)
ExitJson ==
  /\ UNCHANGED <<parseVars, sqlVars>>
  /\ pc = "remove"
  /\ gotPos > Len(got)
  /\ reported' = <<result>>
  /\ pc' = "done"
  /\ UNCHANGED <<keys, check_mode, device, files, out, got, wanted, result, dst,
                 wantedPos, staged, gotPos, ops, error, device0, prev, session>>

\* the module is run a second time with the same keys
Rerun ==
  /\ UNCHANGED <<parseVars, sqlVars>>
  /\ pc \in {"done", "failed", "crashed"}
  /\ prev.pc = "none"
  /\ prev' = [pc |-> pc, check_mode |-> check_mode, changed |-> result.changed,
              reported |-> reported, got |-> got, okread |-> WellFormedRead]
  /\ check_mode' \in BOOLEAN
  /\ pc' = "start"
  /\ out' = <<>>
  /\ got' = <<>>
  /\ wanted' = <<>>
  /\ result' = [changed |-> FALSE]
  /\ reported' = <<>>
  /\ dst' = ""
  /\ wantedPos' = 1
  /\ staged' = FALSE
  /\ gotPos' = 1
  /\ ops' = <<>>
  /\ error' = ""
  /\ device0' = device
  /\ session' = "idle"
  /\ UNCHANGED <<keys, device, files>>

Next ==
  \/ RunCommands
  \/ CheckWanted
  \/ CopyFile
  \/ SendImport
  \/ SendZeroize
  \/ ExitJson

\* one run of the module
Spec == Init /\ [][Next]_vars

\* ---- the parser on its own ----------------------------------------------
\* a label is a sequence of tokens: runs of word characters and the
\* punctuation between them
Labels == {<<"alice">>, <<"bob">>, <<"bob", ".", "smith">>}
RECURSIVE LabelText(_)
LabelText(label) == IF label = <<>> THEN "" ELSE Head(label) \o LabelText(Tail(label))

\* the data lines the device prints: a leading space, groups of hexadecimal
\* digits separated by spaces
DataLineSet == {<<" ", "3", "0", " ", "A", "1">>, <<" ", "0", "1">>}
BlockSet ==
  [label : Labels,
   data : UNION {[1..m -> DataLineSet] : m \in 1..MaxDataLines}]
ParseInputs == UNION {[1..n -> BlockSet] : n \in 0..MaxBlocks}

\* a block: label line, data header, data lines, blank line
BlockText(b) ==
  << <<"Key label: ">> \o b.label, <<"Data     :", " ">> >> \o b.data \o << <<" ">> >>
RECURSIVE BlocksText(_)
BlocksText(bs) == IF bs = <<>> THEN <<>> ELSE BlockText(Head(bs)) \o BlocksText(Tail(bs))

IosxrIdle ==
  /\ keys = <<>>
  /\ check_mode = FALSE
  /\ device = [u \in Users |-> NoKey]
  /\ files = [p \in Paths |-> <<>>]
  /\ pc = "idle"
  /\ out = <<>>
  /\ got = <<>>
  /\ wanted = <<>>
  /\ result = [changed |-> FALSE]
  /\ reported = <<>>
  /\ dst = ""
  /\ wantedPos = 1
  /\ staged = FALSE
  /\ gotPos = 1
  /\ ops = <<>>
  /\ error = ""
  /\ device0 = [u \in Users |-> NoKey]
  /\ prev = NoPrev
  /\ session = "idle"

InitParse ==
  /\ IosxrIdle
  /\ SqlIdle
  /\ blocks \in ParseInputs
  /\ rows = <<>>
  /\ ppc = "input"

\* lines 82-97: the template applied to the output
ParseOutput ==
  /\ ppc = "input"
  /\ rows' = ParseText(ReplaceSpaceNewline(BlocksText(blocks)))
  /\ ppc' = "parsed"
  /\ UNCHANGED <<blocks, iosxrVars, sqlVars>>

NextParse == ParseOutput

SpecParse == InitParse /\ [][NextParse]_vars

\* ---- mysql_import.main ---------------------------------------------------
InitMysql ==
  /\ IosxrIdle
  /\ ParseIdle
  /\ sql \in SqlParams
  /\ tables \in TableLists
  /\ sql_check_mode \in BOOLEAN
  /\ db \in [Tables -> Contents]
  /\ txn = db
  /\ mpc = "start"
  /\ sql_got = <<>>
  /\ sql_wanted = <<>>
  /\ sql_result = [changed |-> FALSE]
  /\ sql_reported = <<>>
  /\ stmtPos = 1
  /\ executed = <<>>
  /\ commits = 0

\* lines 64-67: read the tables before the statements
ReadGot ==
  /\ mpc = "start"
  /\ sql_got' = ReadTables(tables, txn, <<>>)
  /\ mpc' = "exec"
  /\ UNCHANGED <<iosxrVars, parseVars, sql, tables, sql_check_mode, db, txn,
                 sql_wanted, sql_result, sql_reported, stmtPos, executed, commits>>

\* lines 70-78: one turn of "for statement in statements"
ExecuteStatement ==
  /\ mpc = "exec"
  /\ stmtPos <= Len(Statements(sql))
  /\ LET statement == Statements(sql)[stmtPos]
     IN  /\ executed' = Append(executed, statement)
         /\ CASE statement.kind = "write" ->
                   /\ txn' = [txn EXCEPT ![statement.table] = statement.value]
                   /\ stmtPos' = stmtPos + 1
                   /\ UNCHANGED <<mpc, sql_result, sql_reported>>
              [] statement.kind = "OperationalError" ->
                   /\ sql_result' = [changed |-> sql_result.changed,
                                     msg |-> ErrorMsg(statement)]
                   /\ sql_reported' = <<[changed |-> sql_result.changed,
                                         msg |-> ErrorMsg(statement),
                                         failed |-> TRUE]>>
                   /\ mpc' = "failed"
                   /\ UNCHANGED <<txn, stmtPos>>
              [] OTHER ->
                   /\ mpc' = "crashed"
                   /\ UNCHANGED <<txn, stmtPos, sql_result, sql_reported>>
  /\ UNCHANGED <<iosxrVars, parseVars, sql, tables, sql_check_mode, db,
                 sql_got, sql_wanted, commits>>

\* lines 79-81: read the tables after the statements, in the same transaction
ReadWanted ==
  /\ mpc = "exec"
  /\ stmtPos > Len(Statements(sql))
  /\ sql_wanted' = ReadTables(tables, txn, <<>>)
  /\ mpc' = "decide"
  /\ UNCHANGED <<iosxrVars, parseVars, sql, tables, sql_check_mode, db, txn,
                 sql_got, sql_result, sql_reported, stmtPos, executed, commits>>

\* lines 83-94: the diff, and the exit without commit
Decide ==
  /\ mpc = "decide"
  /\ sql_result' = SqlResultOf(sql_got, sql_wanted, tables)
  /\ IF SqlExitsEarly(sql_check_mode, sql_result')
     THEN /\ sql_reported' = <<sql_result'>>
          /\ mpc' = "done"
     ELSE /\ mpc' = "commit"
          /\ UNCHANGED sql_reported
  /\ UNCHANGED <<iosxrVars, parseVars, sql, tables, sql_check_mode, db, txn,
                 sql_got, sql_wanted, stmtPos, executed, commits>>

\* lines 96-98: connection.commit() and exit_json
Commit ==
  /\ mpc = "commit"
  /\ db' = txn
  /\ commits' = commits + 1
  /\ sql_reported' = <<sql_result>>
  /\ mpc' = "done"
  /\ UNCHANGED <<iosxrVars, parseVars, sql, tables, sql_check_mode, txn,
                 sql_got, sql_wanted, sql_result, stmtPos, executed>>

NextMysql ==
  \/ ReadGot
  \/ ExecuteStatement
  \/ ReadWanted
  \/ Decide
  \/ Commit

SpecMysql == InitMysql /\ [][NextMysql]_vars

\* a run followed by a second run on the device as the first one left it
NextTwice ==
  \/ Next
  \/ Rerun

SpecTwice == Init /\ [][NextTwice]_vars

\* ---- vocabulary of the properties ---------------------------------------
Terminal == pc \in {"done", "failed", "crashed"}
\* the run went past the early exit of line 110: it is a real run with a diff
Applying == pc \in {"import", "remove"} \/ (Terminal /\ ~check_mode /\ result.changed)
Mutating(o) == o.op \in {"copy_file", "import", "zeroize"}
OpsOf(name) == {n \in 1..Len(ops) : ops[n].op = name}
OpsOfUser(name, user) == {n \in OpsOf(name) : ops[n].user = user}
\* the keys of the device as the module reads them from a full output
DeviceDict(dev) == ParseKeys(ShowCryptoKey(dev, AllOk))
Identical(user) == Has(got, user) /\ Has(wanted, user) /\ Get(got, user) = Get(wanted, user)

\* C1: in check mode, or when the keys read equal the wanted keys, the run
\* issues no copy_file, no import and no zeroize: the only remote operation
\* is the show command, and the device keeps its keys.
C1_NoMutationWhenDryOrEqual ==
  (check_mode \/ (pc \notin {"start", "check"} /\ DictEq(got, wanted)))
    => /\ \A n \in 1..Len(ops) : ops[n].op = "run_commands"
       /\ device = device0
C1_Witness ==
  /\ check_mode /\ pc = "done" /\ result.changed /\ reported # <<>>
  /\ Len(ops) = 1 /\ WellFormedRead

\* C2: idempotence.  After a real run that completed its apply phase, a
\* second run with the same keys, reading the unchanged device in full,
\* finds got == wanted and reports changed = false.
C2_SecondRunUnchanged ==
  (prev.pc = "done" /\ ~prev.check_mode /\ prev.changed /\ prev.okread
     /\ pc \notin {"start", "check"} /\ WellFormedRead)
    => ~result.changed

\* C3: an import command is sent for a user only if the user is missing
\* from got or its wanted key differs; a user whose key is identical in got
\* and wanted gets no copy_file, no import and no zeroize.
C3_ImportOnlyChanged ==
  Applying =>
    /\ \A n \in OpsOf("import") : NeedsCopy(got, wanted, ops[n].user)
    /\ \A n \in 1..Len(ops) :
         (Mutating(ops[n]) /\ Has(wanted, ops[n].user)) => ~Identical(ops[n].user)

C5_ConvergedOrFailed ==
  (Applying /\ Terminal /\ WellFormedRead) =>
    \/ pc = "done" /\ DictEq(DeviceDict(device), wanted)
    \/ pc = "failed" /\ error \in {"copy_file", "send_command"}

\* C6: when one of the wanted keys cannot be converted, the run ends in
\* the RuntimeError of ssh2cisco before any copy_file, import or zeroize,
\* and the device keeps its keys.
C6_ConversionFailsFirst ==
  (\E n \in 1..Len(keys) : keys[n][2] = BadKey) =>
    /\ \A n \in 1..Len(ops) : ~Mutating(ops[n])
    /\ device = device0
    /\ pc \in {"start", "check", "crashed"}
    /\ pc = "crashed" => error = "RuntimeError: unable to convert key"
C6_Witness ==
  /\ pc = "crashed" /\ ~check_mode /\ Len(keys) >= 2
  /\ keys[1][2] # BadKey /\ keys[2][2] = BadKey
  /\ ~Has(got, keys[1][1]) /\ Len(got) >= 1

\* a label line with no data line before the next label line or the end
LabelWithoutData(lines) ==
  \E n \in 1..Len(lines) :
    /\ MatchLabel(lines[n])
    /\ \A m \in (n + 1)..Len(lines) :
         MatchData(lines[m]) => \E l \in (n + 1)..(m - 1) : MatchLabel(lines[l])

\* C7: when the output holds a label line without a data section, parsing
\* raises a ParseError and the run goes no further.
C7_ParseErrorOnMissingData ==
  (pc # "start" /\ LabelWithoutData(ReplaceSpaceNewline(out)))
    => pc = "crashed" /\ error = "ParseError"

\* C8: when a remote operation fails during apply, the result handed to
\* the harness has changed = true and the diff from got to wanted.
C8_FailureReportsIntendedDiff ==
  pc = "failed" =>
    reported = << [changed |-> TRUE,
                   diff |-> [before |-> safe_dump(got), after |-> safe_dump(wanted)]] >>

\* C9: changed is true iff got differs from wanted; no user is both
\* imported and zeroized; and in a completed real run a user is neither
\* imported nor zeroized iff its key is identical in got and wanted.
C9_DiffCorrect ==
  (pc \in {"import", "remove", "done", "failed"}) =>
    /\ result.changed <=> Range(got) # Range(wanted)
    /\ \A u \in Users : OpsOfUser("import", u) = {} \/ OpsOfUser("zeroize", u) = {}
    /\ (pc = "done" /\ Applying) =>
         \A u \in Users :
           (Has(got, u) \/ Has(wanted, u)) =>
             ((OpsOfUser("import", u) = {} /\ OpsOfUser("zeroize", u) = {})
                <=> Identical(u))

\* C10: the reported result holds a diff exactly when changed is true,
\* with before = the keys read and after = the converted wanted keys.  The
\* reported result is fixed by the keys read and the wanted keys alone, so
\* a check-mode run and a completed real run on the same keys report the
\* same changed flag and the same diff.
C10_ReportedResult ==
  reported # <<>> =>
    /\ ("diff" \in DOMAIN reported[1]) <=> reported[1].changed
    /\ reported[1] =
         IF Range(ParseKeys(out)) # Range(WantedOf(keys))
         THEN [changed |-> TRUE,
               diff |-> [before |-> safe_dump(ParseKeys(out)),
                         after |-> safe_dump(WantedOf(keys))]]
         ELSE [changed |-> FALSE]
C10_Witness ==
  /\ ~check_mode /\ pc = "done" /\ reported # <<>>
  /\ Cardinality(OpsOf("import")) >= 1 /\ Cardinality(OpsOf("zeroize")) >= 1
  /\ "diff" \in DOMAIN reported[1]
  /\ reported[1].diff.before # reported[1].diff.after

\* C11: every import command of user u names the path derived from u and
\* directly follows, in the same run, the successful copy_file of u's own
\* key to that path; it never names a path staged for another user.
C11_StageThenImport ==
  \A n \in OpsOf("import") :
    /\ ops[n].path = DstPath(ops[n].user)
    /\ n > 1
    /\ ops[n - 1] = Op("copy_file", ops[n].user, DstPath(ops[n].user), TRUE)
    /\ files[ops[n].path] = PayloadBytes(Get(keys, ops[n].user))

\* C14: after a real run that failed during apply, a second run with the
\* same keys that reads the device in full and completes leaves the keys
\* of the device equal to the wanted keys.
C14_RetryConverges ==
  (prev.pc = "failed" /\ pc = "done" /\ ~check_mode /\ WellFormedRead)
    => DictEq(DeviceDict(device), wanted)

\* the keys of the device after the successful operations of a log
RECURSIVE Replay(_, _)
Replay(dev, log) ==
  IF log = <<>> THEN dev
  ELSE Replay(
         IF Head(log).ok /\ Head(log).op = "import"
         THEN [dev EXCEPT ![Head(log).user] = DeviceKeyOf(files[Head(log).path])]
         ELSE IF Head(log).ok /\ Head(log).op = "zeroize"
         THEN [dev EXCEPT ![Head(log).user] = NoKey]
         ELSE dev,
         Tail(log))

\* C13: a remote operation that fails is the last operation of the run,
\* and the keys of the device are those left by the operations that
\* succeeded before it: nothing is undone and nothing else is issued.
C13_StopAtFirstFailure ==
  /\ \A n \in 1..Len(ops) : ~ops[n].ok => (n = Len(ops) /\ pc = "failed")
  /\ pc = "failed" => (Len(ops) >= 2 /\ ~ops[Len(ops)].ok)
  /\ device = Replay(device0, ops)
C13_Witness ==
  /\ pc = "failed" /\ device # device0
  /\ \E n \in OpsOf("import") : ops[n].ok /\ n < Len(ops)
  /\ ops[Len(ops)].op \in {"copy_file", "zeroize"}

\* C15: the remote operations are issued one at a time on one session: an
\* operation is only issued while no yes/no question is open, and every
\* import or zeroize command is answered within its own step, so the
\* session is idle again before anything else happens.
C15_OneExchangeAtATime ==
  [][(ops' # ops => session = "idle") /\ session' = "idle"]_vars
C15_Witness ==
  /\ pc = "done" /\ session = "idle"
  /\ \E n \in OpsOf("import") : ops[n].ok
  /\ \E n \in OpsOf("zeroize") : ops[n].ok /\ device0[ops[n].user] # NoKey
                                   /\ device[ops[n].user] = NoKey

\* C12: for an output made of blocks, each a label line, a data header,
\* one or more data lines and a blank line, the parser returns one row per
\* block, in order, whose user is the label of the block verbatim and whose
\* key is the data of that block alone, joined without spaces.
C12_OneRecordPerBlock ==
  ppc = "parsed" =>
    /\ Len(rows) = Len(blocks)
    /\ \A n \in 1..Len(rows) :
         /\ n <= Len(blocks)
         /\ rows[n][1] = LabelText(blocks[n].label)
         /\ JoinData(rows[n][2]) = SelectSeq(Flatten(blocks[n].data), LAMBDA c : c # " ")

\* C16: mysql_import commits at most once, and only when check mode is off,
\* every statement was executed without raising OperationalError, and the
\* watched tables read after the statements differ from what was read before;
\* at the first OperationalError it fails with a message naming the statement,
\* executes no later statement and never commits.
C16_CommitDiscipline ==
  /\ commits <= 1
  /\ commits = 1 =>
       /\ ~sql_check_mode
       /\ executed = Statements(sql)
       /\ \A n \in 1..Len(executed) : executed[n].kind = "write"
       /\ \E n \in 1..Len(tables) : db[tables[n]] # Get(sql_got, tables[n])
  /\ \A n \in 1..Len(executed) :
       executed[n].kind = "OperationalError" =>
         /\ n = Len(executed)
         /\ executed = SubSeq(Statements(sql), 1, n)
         /\ mpc = "failed"
         /\ commits = 0
         /\ Len(sql_reported) = 1
         /\ sql_reported[1].failed
         /\ sql_reported[1].msg = ErrorMsg(executed[n])
  /\ mpc = "failed" => (executed # <<>> /\ executed[Len(executed)].kind = "OperationalError")

C16_Witness ==
  /\ mpc = "done"
  /\ commits = 1
  /\ Len(executed) >= 2
  /\ db = txn
  /\ \E n \in 1..Len(tables) : db[tables[n]] # Get(sql_got, tables[n])

====
